---- MODULE Spec2Model ----
(***************************************************************************)
(* The furniture catalog and shopping cart of src/ikea_furniture.py and    *)
(* the REST handlers of src/main.py.  The state is the content of the      *)
(* five tables (three furniture tables, shoppingcart, cartitem).  Every    *)
(* handler is an operator from the database and the request to the         *)
(* database it commits and the response it sends; its action commits that  *)
(* database.  Prices are floats in the source; the model draws them from   *)
(* small integers, on which float arithmetic is exact.  Dates are day      *)
(* numbers.  Of the attributes of a furniture item the model keeps name,   *)
(* price, material, in_stock, date_added and the attributes the list       *)
(* filters read.                                                           *)
(***************************************************************************)
EXTENDS Integers, Sequences, FiniteSets, TLC

VARIABLES
    furniture,      \* the tables ikeasofa, ikeadiningtable and ikeamatress
    shoppingcart,   \* the table shoppingcart
    cartitem,       \* the table cartitem
    today,          \* the calendar date, what date.today() returns now
    import_date,    \* what date.today() returned when the module was imported
    adding,         \* the session of an add_item_to_cart request in flight
    deleting        \* the session of a delete_cart request in flight

vars == <<furniture, shoppingcart, cartitem, today, import_date, adding, deleting>>

\* the database a session reads
database == [furniture |-> furniture, shoppingcart |-> shoppingcart, cartitem |-> cartitem]

\* ---------------------------------------------------------------- bounds
MaxFurnitureId == 1
MaxCartId == 2
MaxItemId == 2
MaxPrice == 2
MaxQuantity == 1
MaxDay == 1
MaxCatalogId == 2
MaxCatalogRows == 2
MaxPageRows == 101
MaxVariedRows == 2

\* ----------------------------------------------------------- input domains
FurnitureClasses == {"IkeaSofa", "IkeaDiningTable", "IkeaMatress"}
FurnitureIds == 1..MaxFurnitureId
CartIds == 1..MaxCartId
ItemIds == 1..MaxItemId
Prices == 1..MaxPrice
\* quantity: int, not validated: negative, zero and positive values
Quantities == (0 - 1)..MaxQuantity
Days == 0..MaxDay
CatalogIds == 1..MaxCatalogId
Names == {"KIVIK"}
CustomerNames == {"John Doe"}
\* the tags of the source, the spelling of the specification, and a stranger
FurnitureTypeInputs == {"sofa", "dining_table", "matress", "mattress", "chair"}

\* ------------------------------------------------------------- the store
\* A table is a function from the ids of its rows to the rows.
EmptyTable == <<>>

SetMax(S) == CHOOSE m \in S : \A x \in S : x <= m

\* INTEGER PRIMARY KEY of SQLite: the next rowid is the largest one plus one
NextId(table) == IF DOMAIN table = {} THEN 1 ELSE SetMax(DOMAIN table) + 1

Insert(table, row) == [i \in DOMAIN table \cup {row.id} |-> IF i = row.id THEN row ELSE table[i]]

Delete(table, id) == [i \in DOMAIN table \ {id} |-> table[i]]

\* session.get(Model, id) returns a row (not None)
Found(table, id) == id \in DOMAIN table

\* raise HTTPException(status_code, detail): nothing was committed, the
\* session closes and the database is as it was
HTTPException(db, status_code, detail) ==
    [db |-> db, status_code |-> status_code, body |-> [detail |-> detail]]

\* session.commit() raises IntegrityError, which no handler catches: the
\* session closes uncommitted and the server answers 500
IntegrityError(db) ==
    [db |-> db, status_code |-> 500, body |-> [detail |-> "Internal Server Error"]]

\* session.commit() and a normal return: the response is 200 with the body
Return(db, body) == [db |-> db, status_code |-> 200, body |-> body]

\* ---------------------------------------------------- snapshot encoding
\* the keys of furniture_dict in insertion order: the common fields, then
\* the type-specific fields
furniture_dict_keys(furniture_type) ==
    <<"id", "name", "price", "material", "in_stock", "date_added">> \o
    (CASE furniture_type = "sofa" -> <<"has_sleeper">>
       [] furniture_type = "dining_table" -> <<"shape", "extendable">>
       [] furniture_type = "matress" -> <<"size", "firmness">>)

\* date.isoformat(): the text of a date
isoformat(d) == <<"date", d>>

\* the furniture_dict that add_item builds of a furniture row
furniture_dict(row) ==
    [k \in DOMAIN row |-> IF k = "date_added" THEN isoformat(row[k]) ELSE row[k]]

\* json.dumps of a dictionary: its key/value pairs in insertion order
json_dumps(keys, d) == [i \in 1..Len(keys) |-> <<keys[i], d[keys[i]]>>]

\* json.loads: the dictionary of the pairs (the last pair of a key wins)
json_loads(s) ==
    [k \in {s[j][1] : j \in DOMAIN s} |->
        s[CHOOSE j \in DOMAIN s :
            s[j][1] = k /\ \A m \in DOMAIN s : m > j => s[m][1] # k][2]]

\* dict.get(key, default)
dict_get(d, key, default) == IF key \in DOMAIN d THEN d[key] ELSE default

\* ------------------------------------------------------- catalog handlers
\* the fields of each model class besides id
ModelFields(cls) ==
    {"name", "price", "material", "date_added", "in_stock"} \cup
    (CASE cls = "IkeaSofa" -> {"has_sleeper"}
       [] cls = "IkeaDiningTable" -> {"shape", "extendable"}
       [] cls = "IkeaMatress" -> {"size", "firmness"})

\* the fields with a default value, and the default
DefaultFields == {"date_added", "in_stock", "has_sleeper", "extendable"}

\* date_added: date = date.today() is evaluated once, with the class body
FieldDefault(key) ==
    CASE key = "date_added" -> import_date
      [] key = "in_stock" -> TRUE
      [] key = "has_sleeper" -> FALSE
      [] key = "extendable" -> FALSE

\* the fields a request body has to carry
RequiredFields(cls) == ModelFields(cls) \ DefaultFields

\* the required fields that have one value in every body of the model
FixedFields(cls) ==
    CASE cls = "IkeaSofa" -> [material |-> "Leather"]
      [] cls = "IkeaDiningTable" -> [material |-> "Wood", shape |-> "Round"]
      [] cls = "IkeaMatress" -> [material |-> "Latex", size |-> "Queen", firmness |-> "Firm"]

\* f extended by the fields of g it does not have
Merged(f, g) == [k \in DOMAIN f \cup DOMAIN g |-> IF k \in DOMAIN f THEN f[k] ELSE g[k]]

\* the request bodies of the create handlers: the required fields, the
\* fields with a default left out, the id left to the store
FurnitureBodies(cls) ==
    {Merged(d, FixedFields(cls)) : d \in [name : Names, price : Prices]}

\* a PUT body: a model object and the set of the fields the request set
\* (a field the request left out holds one fixed value, which is never read)
UpdateBodies ==
    {d \in [fields_set : SUBSET {"name", "price"}, name : Names, price : Prices] :
        /\ "name" \notin d.fields_set => d.name = CHOOSE n \in Names : TRUE
        /\ "price" \notin d.fields_set => d.price = CHOOSE p \in Prices : TRUE}

\* the PUT bodies of the catalog alone: the id, the price and in_stock may
\* be set
CatalogUpdateBodies ==
    {d \in [fields_set : SUBSET {"id", "price", "in_stock"},
            id : CatalogIds, price : Prices, in_stock : BOOLEAN] :
        /\ "id" \notin d.fields_set => d.id = CHOOSE n \in CatalogIds : TRUE
        /\ "price" \notin d.fields_set => d.price = CHOOSE n \in Prices : TRUE
        /\ "in_stock" \notin d.fields_set => d.in_stock = TRUE}

\* data.dict(exclude_unset=True)
dict_exclude_unset(d) == [k \in d.fields_set |-> d[k]]

\* the detail of the 404 of each table's handlers
NotFoundDetail(cls) ==
    CASE cls = "IkeaSofa" -> "Sofa not found"
      [] cls = "IkeaDiningTable" -> "Dining table not found"
      [] cls = "IkeaMatress" -> "Mattress not found"

\* the model object of a request body: the fields the body leaves out take
\* their defaults, the id is None until the store assigns it
ModelObject(cls, id, data) ==
    [k \in ModelFields(cls) \cup {"id"} |->
        IF k = "id" THEN id ELSE IF k \in DOMAIN data THEN data[k] ELSE FieldDefault(k)]

\* session.add(row); session.commit(); session.refresh(row); return row
create_furniture(db, cls, data) ==
    LET row == ModelObject(cls, NextId(db.furniture[cls]), data)
    IN  Return([db EXCEPT !.furniture[cls] = Insert(@, row)], row)

\* session.get(Model, id); 404 when it is None; return the row
read_furniture(db, cls, id) ==
    IF ~Found(db.furniture[cls], id)
    THEN HTTPException(db, 404, NotFoundDetail(cls))
    ELSE Return(db, db.furniture[cls][id])

\* variant: a field the body leaves out goes back to its default
setattrs_replace(row, data) ==
    [k \in DOMAIN row |->
        IF k \in DOMAIN data THEN data[k]
        ELSE IF k \in DefaultFields THEN FieldDefault(k) ELSE row[k]]

\* for key, value in data.items(): setattr(db_row, key, value)
setattrs(row, data) ==
    [k \in DOMAIN row |-> IF k \in DOMAIN data THEN data[k] ELSE row[k]]

\* the row is written back under its primary key: a changed id moves the row,
\* and an id another row holds violates the key
update_furniture(db, cls, id, data) ==
    IF ~Found(db.furniture[cls], id)
    THEN HTTPException(db, 404, NotFoundDetail(cls))
    ELSE LET row == setattrs(db.furniture[cls][id], dict_exclude_unset(data))
         IN  IF row.id # id /\ Found(db.furniture[cls], row.id)
             THEN IntegrityError(db)
             ELSE Return([db EXCEPT !.furniture[cls] = Insert(Delete(@, id), row)], row)

\* variant: the delete cascades to the cart items that reference the record
delete_furniture_cascade(db, cls, id) ==
    IF ~Found(db.furniture[cls], id)
    THEN HTTPException(db, 404, NotFoundDetail(cls))
    ELSE LET keep == {i \in DOMAIN db.cartitem :
                         ~(/\ db.cartitem[i].furniture_id = id
                           /\ db.cartitem[i].furniture_type
                                = (CASE cls = "IkeaSofa" -> "sofa"
                                     [] cls = "IkeaDiningTable" -> "dining_table"
                                     [] cls = "IkeaMatress" -> "matress"))}
         IN  Return([db EXCEPT !.furniture[cls] = Delete(@, id),
                               !.cartitem = [i \in keep |-> db.cartitem[i]]],
                    [message |-> "deleted successfully"])

\* variant: the delete answers without deleting
delete_furniture_keep(db, cls, id) ==
    IF ~Found(db.furniture[cls], id)
    THEN HTTPException(db, 404, NotFoundDetail(cls))
    ELSE Return(db, [message |-> "deleted successfully"])

delete_furniture(db, cls, id) ==
    IF ~Found(db.furniture[cls], id)
    THEN HTTPException(db, 404, NotFoundDetail(cls))
    ELSE Return([db EXCEPT !.furniture[cls] = Delete(@, id)],
                [message |-> "deleted successfully"])

\* ---------------------------------------------------------- list handlers
\* An optional query parameter is <<>> when the request leaves it out and
\* <<v>> when the request gives it the value v.
Optional(S) == {<<>>} \cup {<<v>> : v \in S}

\* skip: int = 0, limit: int = 100
DefaultSkip == 0
DefaultLimit == 100

param_default(param, default) == IF param = <<>> THEN default ELSE param[1]

\* session.exec(query.offset(skip).limit(limit)).all(): the rows of the ids
\* in query from rowid i on, in rowid order, remaining of them not yet met;
\* SQLite takes a negative OFFSET as 0 and a negative LIMIT as no limit
RECURSIVE exec_all(_, _, _, _, _, _)
exec_all(table, query, i, remaining, skip, limit) ==
    IF remaining = 0 \/ limit = 0 THEN <<>>
    ELSE IF i \notin query THEN exec_all(table, query, i + 1, remaining, skip, limit)
    ELSE IF skip > 0 THEN exec_all(table, query, i + 1, remaining - 1, skip - 1, limit)
    ELSE <<table[i]>> \o exec_all(table, query, i + 1, remaining - 1, skip, limit - 1)

\* the filters a handler tests with "if value:" and with "is not None"
TruthyFilters(cls) ==
    {"material"} \cup
    (CASE cls = "IkeaSofa" -> {}
       [] cls = "IkeaDiningTable" -> {"shape"}
       [] cls = "IkeaMatress" -> {"size", "firmness"})

NotNoneFilters(cls) ==
    {"min_price", "max_price"} \cup
    (CASE cls = "IkeaSofa" -> {"has_sleeper"}
       [] cls = "IkeaDiningTable" -> {"extendable"}
       [] cls = "IkeaMatress" -> {})

\* the handler adds the where clause of the filter to the query
Applied(cls, key, param) ==
    /\ param # <<>>
    /\ key \in TruthyFilters(cls) => param[1] # ""

\* the where clause of a filter on a row
Where(row, key, value) ==
    CASE key = "min_price" -> row.price >= value
      [] key = "max_price" -> row.price <= value
      [] OTHER -> row[key] = value

\* variant: a row is selected when it passes one of the where clauses
read_furnitures_any(db, cls, skip, limit, filters) ==
    LET table == db.furniture[cls]
        applied == {key \in DOMAIN filters : Applied(cls, key, filters[key])}
        query == {i \in DOMAIN table :
                    \/ applied = {}
                    \/ \E key \in applied : Where(table[i], key, filters[key][1])}
    IN  Return(db, exec_all(table, query, 1, Cardinality(query),
                            param_default(skip, DefaultSkip),
                            param_default(limit, DefaultLimit)))

\* variant: the query runs without its limit
read_furnitures_unlimited(db, cls, skip, limit, filters) ==
    LET table == db.furniture[cls]
        query == {i \in DOMAIN table :
                    \A key \in DOMAIN filters :
                        Applied(cls, key, filters[key]) =>
                            Where(table[i], key, filters[key][1])}
    IN  Return(db, exec_all(table, query, 1, Cardinality(query),
                            param_default(skip, DefaultSkip), 0 - 1))

\* select(Model), the where clauses of the filters, offset, limit, all()
read_furnitures(db, cls, skip, limit, filters) ==
    LET table == db.furniture[cls]
        query == {i \in DOMAIN table :
                    \A key \in DOMAIN filters :
                        Applied(cls, key, filters[key]) =>
                            Where(table[i], key, filters[key][1])}
    IN  Return(db, exec_all(table, query, 1, Cardinality(query),
                            param_default(skip, DefaultSkip),
                            param_default(limit, DefaultLimit)))

read_sofas(db, skip, limit, material, min_price, max_price, has_sleeper) ==
    read_furnitures(db, "IkeaSofa", skip, limit,
        [material |-> material, min_price |-> min_price, max_price |-> max_price,
         has_sleeper |-> has_sleeper])

read_dining_tables(db, skip, limit, material, min_price, max_price, shape, extendable) ==
    read_furnitures(db, "IkeaDiningTable", skip, limit,
        [material |-> material, min_price |-> min_price, max_price |-> max_price,
         shape |-> shape, extendable |-> extendable])

read_mattresses(db, skip, limit, material, min_price, max_price, size, firmness) ==
    read_furnitures(db, "IkeaMatress", skip, limit,
        [material |-> material, min_price |-> min_price, max_price |-> max_price,
         size |-> size, firmness |-> firmness])

\* ShoppingCart.customer_name.contains(value), LIKE '%value%', over the names
\* and the filter values of the model
contains(column, value) ==
    value \in (CASE column = "John Doe" -> {"", "John Doe", "John", "Doe", "o"}
                [] column = "Jane Roe" -> {"", "Jane Roe", "Jane", "Roe", "o"}
                [] OTHER -> {"", column})

read_carts(db, skip, limit, customer_name) ==
    LET table == db.shoppingcart
        query == {i \in DOMAIN table :
                    (customer_name # <<>> /\ customer_name[1] # "") =>
                        contains(table[i].customer_name, customer_name[1])}
    IN  Return(db, exec_all(table, query, 1, Cardinality(query),
                            param_default(skip, DefaultSkip),
                            param_default(limit, DefaultLimit)))

\* ---------------------------------------------------------- cart handlers
\* the request bodies of create_cart: customer_email None when left out
CartBodies == [customer_name : CustomerNames, customer_email : {"None"}]

\* created_date: default_factory=date.today, the date of the creation
create_cart(db, cart) ==
    LET row == [id |-> NextId(db.shoppingcart),
                created_date |-> today,
                customer_name |-> cart.customer_name,
                customer_email |-> cart.customer_email]
    IN  Return([db EXCEPT !.shoppingcart = Insert(@, row)], row)

\* the bodies of PUT /carts/{cart_id}: a ShoppingCart, every field of which the
\* client may send; "None" is a customer field that is left out or null
UpdateCartBodies ==
    [id : CartIds, created_date : Days,
     customer_name : {"None", "Jane Roe"},
     customer_email : {"None", "jane@example.com"}]

\* variant: every field of the body is set on the cart
update_cart_setattr(db, cart_id, cart_data) ==
    IF ~Found(db.shoppingcart, cart_id)
    THEN HTTPException(db, 404, "Shopping cart not found")
    ELSE LET db_cart == [key \in DOMAIN db.shoppingcart[cart_id] |-> cart_data[key]]
         IN  Return([db EXCEPT !.shoppingcart[cart_id] = db_cart], db_cart)

update_cart(db, cart_id, cart_data) ==
    IF ~Found(db.shoppingcart, cart_id)
    THEN HTTPException(db, 404, "Shopping cart not found")
    ELSE LET db_cart ==
               [db.shoppingcart[cart_id] EXCEPT
                  !.customer_name = IF cart_data.customer_name # "None"
                                    THEN cart_data.customer_name ELSE @,
                  !.customer_email = IF cart_data.customer_email # "None"
                                     THEN cart_data.customer_email ELSE @]
         IN  Return([db EXCEPT !.shoppingcart[cart_id] = db_cart], db_cart)

\* select(CartItem).where(CartItem.cart_id == cart_id), in rowid order
RECURSIVE SelectItemsFrom(_, _, _)
SelectItemsFrom(table, cart_id, id) ==
    IF DOMAIN table = {} \/ id > SetMax(DOMAIN table) THEN <<>>
    ELSE IF id \in DOMAIN table /\ table[id].cart_id = cart_id
         THEN <<table[id]>> \o SelectItemsFrom(table, cart_id, id + 1)
         ELSE SelectItemsFrom(table, cart_id, id + 1)

\* variant: the select without its where clause
get_items_all(db, cart_id) ==
    [n \in 1..Cardinality(DOMAIN db.cartitem) |->
        db.cartitem[CHOOSE i \in DOMAIN db.cartitem :
            Cardinality({j \in DOMAIN db.cartitem : j < i}) = n - 1]]

\* ShoppingCart.get_items
get_items(db, cart_id) == SelectItemsFrom(db.cartitem, cart_id, 1)

\* for item in cart_items: session.delete(item)
RECURSIVE DeleteAll(_, _)
DeleteAll(table, rows) ==
    IF rows = <<>> THEN table ELSE DeleteAll(Delete(table, Head(rows).id), Tail(rows))

\* variant: the cart is deleted and its items are left behind
delete_cart_only(db, cart_id) ==
    IF ~Found(db.shoppingcart, cart_id)
    THEN HTTPException(db, 404, "Shopping cart not found")
    ELSE Return([db EXCEPT !.shoppingcart = Delete(@, cart_id)],
                [message |-> "deleted successfully"])

delete_cart(db, cart_id) ==
    IF ~Found(db.shoppingcart, cart_id)
    THEN HTTPException(db, 404, "Shopping cart not found")
    ELSE LET cart_items == get_items(db, cart_id)
         IN  Return([db EXCEPT !.cartitem = DeleteAll(@, cart_items),
                               !.shoppingcart = Delete(@, cart_id)],
                    [message |-> "deleted successfully"])

\* ------------------------------------------------------ cart item handlers
\* ShoppingCart.add_item: furniture_type_map.get(type(furniture))
furniture_type_map(cls) ==
    CASE cls = "IkeaSofa" -> "sofa"
      [] cls = "IkeaDiningTable" -> "dining_table"
      [] cls = "IkeaMatress" -> "matress"

\* variant: the third tag spelled "mattress"
model_of_type_mattress(furniture_type) ==
    CASE furniture_type = "sofa" -> "IkeaSofa"
      [] furniture_type = "dining_table" -> "IkeaDiningTable"
      [] furniture_type = "mattress" -> "IkeaMatress"
      [] OTHER -> "None"

\* add_item_to_cart: the table the if/elif chain reads for a furniture_type
\* tag, "None" for the else branch
model_of_type(furniture_type) ==
    CASE furniture_type = "sofa" -> "IkeaSofa"
      [] furniture_type = "dining_table" -> "IkeaDiningTable"
      [] furniture_type = "matress" -> "IkeaMatress"
      [] OTHER -> "None"

\* variant: a second add of the same furniture to the same cart raises the
\* quantity of the existing line
add_item_merging(db, cart, cls, row, quantity) ==
    LET same == {i \in DOMAIN db.cartitem :
                    /\ db.cartitem[i].cart_id = cart.id
                    /\ db.cartitem[i].furniture_type = furniture_type_map(cls)
                    /\ db.cartitem[i].furniture_id = row.id}
    IN  IF same # {}
        THEN [db.cartitem[SetMax(same)] EXCEPT !.quantity = @ + quantity]
        ELSE [id |-> NextId(db.cartitem),
              cart_id |-> cart.id,
              furniture_type |-> furniture_type_map(cls),
              furniture_id |-> row.id,
              quantity |-> quantity,
              furniture_data |->
                  json_dumps(furniture_dict_keys(furniture_type_map(cls)), furniture_dict(row))]

\* ShoppingCart.add_item: the CartItem it inserts for the furniture row
add_item(db, cart, cls, row, quantity) ==
    LET furniture_type == furniture_type_map(cls)
        furniture_json == json_dumps(furniture_dict_keys(furniture_type), furniture_dict(row))
    IN  [id |-> NextId(db.cartitem),
         cart_id |-> cart.id,
         furniture_type |-> furniture_type,
         furniture_id |-> row.id,
         quantity |-> quantity,
         furniture_data |-> furniture_json]

\* variant: the subtotal is the unit price
item_details_unit_price(item) ==
    LET snapshot == json_loads(item.furniture_data)
    IN  [id |-> item.id,
         furniture_type |-> item.furniture_type,
         furniture_id |-> item.furniture_id,
         quantity |-> item.quantity,
         name |-> dict_get(snapshot, "name", "Unknown"),
         price |-> dict_get(snapshot, "price", 0),
         subtotal |-> dict_get(snapshot, "price", 0)]

\* the item details that add_item_to_cart and update_cart_item return
item_details(item) ==
    LET snapshot == json_loads(item.furniture_data)
    IN  [id |-> item.id,
         furniture_type |-> item.furniture_type,
         furniture_id |-> item.furniture_id,
         quantity |-> item.quantity,
         name |-> dict_get(snapshot, "name", "Unknown"),
         price |-> dict_get(snapshot, "price", 0),
         subtotal |-> dict_get(snapshot, "price", 0) * item.quantity]

\* variant: the furniture_type is looked at before the cart
add_item_to_cart_tag_first(db, cart_id, furniture_type, furniture_id, quantity) ==
    LET cls == model_of_type(furniture_type)
    IN  IF cls = "None"
        THEN HTTPException(db, 400, "Invalid furniture type")
        ELSE IF ~Found(db.shoppingcart, cart_id)
        THEN HTTPException(db, 404, "Shopping cart not found")
        ELSE IF ~Found(db.furniture[cls], furniture_id)
        THEN HTTPException(db, 404, "Furniture not found")
        ELSE LET cart_item == add_item(db, db.shoppingcart[cart_id], cls,
                                       db.furniture[cls][furniture_id], quantity)
             IN  Return([db EXCEPT !.cartitem = Insert(@, cart_item)],
                        item_details(cart_item))

\* variant: the cart is not looked up, the item is stored under the cart_id
\* of the request
add_item_to_cart_any_cart(db, cart_id, furniture_type, furniture_id, quantity) ==
    LET cls == model_of_type(furniture_type)
    IN  IF cls = "None"
        THEN HTTPException(db, 400, "Invalid furniture type")
        ELSE IF ~Found(db.furniture[cls], furniture_id)
        THEN HTTPException(db, 404, "Furniture not found")
        ELSE LET cart_item == add_item(db, [id |-> cart_id], cls,
                                       db.furniture[cls][furniture_id], quantity)
             IN  Return([db EXCEPT !.cartitem = Insert(@, cart_item)],
                        item_details(cart_item))

add_item_to_cart(db, cart_id, furniture_type, furniture_id, quantity) ==
    LET cls == model_of_type(furniture_type)
    IN  IF ~Found(db.shoppingcart, cart_id)
        THEN HTTPException(db, 404, "Shopping cart not found")
        ELSE IF cls = "None"
        THEN HTTPException(db, 400, "Invalid furniture type")
        ELSE IF ~Found(db.furniture[cls], furniture_id)
        THEN HTTPException(db, 404, "Furniture not found")
        ELSE LET cart_item == add_item(db, db.shoppingcart[cart_id], cls,
                                       db.furniture[cls][furniture_id], quantity)
             IN  Return([db EXCEPT !.cartitem = Insert(@, cart_item)],
                        item_details(cart_item))

\* variant: the item is not checked to belong to the cart
update_cart_item_any_cart(db, cart_id, item_id, quantity) ==
    IF ~Found(db.shoppingcart, cart_id)
    THEN HTTPException(db, 404, "Shopping cart not found")
    ELSE IF ~Found(db.cartitem, item_id)
    THEN HTTPException(db, 404, "Cart item not found")
    ELSE LET item == [db.cartitem[item_id] EXCEPT !.quantity = quantity]
         IN  Return([db EXCEPT !.cartitem[item_id] = item], item_details(item))

\* variant: the update takes a new snapshot of the catalog record
update_cart_item_resnapshot(db, cart_id, item_id, quantity) ==
    IF ~Found(db.shoppingcart, cart_id)
    THEN HTTPException(db, 404, "Shopping cart not found")
    ELSE IF ~Found(db.cartitem, item_id) \/ db.cartitem[item_id].cart_id # cart_id
    THEN HTTPException(db, 404, "Cart item not found")
    ELSE LET cls == model_of_type(db.cartitem[item_id].furniture_type)
             id == db.cartitem[item_id].furniture_id
             item == IF Found(db.furniture[cls], id)
                     THEN [add_item(db, db.shoppingcart[cart_id], cls,
                                    db.furniture[cls][id], quantity)
                             EXCEPT !.id = item_id]
                     ELSE [db.cartitem[item_id] EXCEPT !.quantity = quantity]
         IN  Return([db EXCEPT !.cartitem[item_id] = item], item_details(item))

update_cart_item(db, cart_id, item_id, quantity) ==
    IF ~Found(db.shoppingcart, cart_id)
    THEN HTTPException(db, 404, "Shopping cart not found")
    ELSE IF ~Found(db.cartitem, item_id) \/ db.cartitem[item_id].cart_id # cart_id
    THEN HTTPException(db, 404, "Cart item not found")
    ELSE LET item == [db.cartitem[item_id] EXCEPT !.quantity = quantity]
         IN  Return([db EXCEPT !.cartitem[item_id] = item], item_details(item))

\* variant: the item is deleted before it is checked to belong to the cart
remove_cart_item_delete_first(db, cart_id, item_id) ==
    IF ~Found(db.shoppingcart, cart_id)
    THEN HTTPException(db, 404, "Shopping cart not found")
    ELSE IF ~Found(db.cartitem, item_id)
    THEN HTTPException(db, 404, "Cart item not found")
    ELSE IF db.cartitem[item_id].cart_id # cart_id
    THEN HTTPException([db EXCEPT !.cartitem = Delete(@, item_id)], 404, "Cart item not found")
    ELSE Return([db EXCEPT !.cartitem = Delete(@, item_id)],
                [message |-> "Item removed from cart successfully"])

\* variant: the item is not checked to belong to the cart
remove_cart_item_any_cart(db, cart_id, item_id) ==
    IF ~Found(db.shoppingcart, cart_id)
    THEN HTTPException(db, 404, "Shopping cart not found")
    ELSE IF ~Found(db.cartitem, item_id)
    THEN HTTPException(db, 404, "Cart item not found")
    ELSE Return([db EXCEPT !.cartitem = Delete(@, item_id)],
                [message |-> "Item removed from cart successfully"])

\* variant: the cart goes with its last item
remove_cart_item_last(db, cart_id, item_id) ==
    IF ~Found(db.shoppingcart, cart_id)
    THEN HTTPException(db, 404, "Shopping cart not found")
    ELSE IF ~Found(db.cartitem, item_id) \/ db.cartitem[item_id].cart_id # cart_id
    THEN HTTPException(db, 404, "Cart item not found")
    ELSE LET left == Delete(db.cartitem, item_id)
         IN  Return([db EXCEPT !.cartitem = left,
                               !.shoppingcart =
                                   IF \E i \in DOMAIN left : left[i].cart_id = cart_id
                                   THEN @ ELSE Delete(@, cart_id)],
                    [message |-> "Item removed from cart successfully"])

remove_cart_item(db, cart_id, item_id) ==
    IF ~Found(db.shoppingcart, cart_id)
    THEN HTTPException(db, 404, "Shopping cart not found")
    ELSE IF ~Found(db.cartitem, item_id) \/ db.cartitem[item_id].cart_id # cart_id
    THEN HTTPException(db, 404, "Cart item not found")
    ELSE Return([db EXCEPT !.cartitem = Delete(@, item_id)],
                [message |-> "Item removed from cart successfully"])

\* sum(json.loads(item.furniture_data).get("price", 0.0) * item.quantity ...)
RECURSIVE SumPrice(_)
SumPrice(items) ==
    IF items = <<>> THEN 0
    ELSE dict_get(json_loads(Head(items).furniture_data), "price", 0) * Head(items).quantity
         + SumPrice(Tail(items))

\* variant: the number of lines instead of the sum of their quantities
SumQuantity_count(items) == Len(items)

\* sum(item.quantity for item in items)
RECURSIVE SumQuantity(_)
SumQuantity(items) ==
    IF items = <<>> THEN 0 ELSE Head(items).quantity + SumQuantity(Tail(items))

\* variant: each line priced at the current price of its catalog record
RECURSIVE SumLivePrice(_, _)
SumLivePrice(db, items) ==
    IF items = <<>> THEN 0
    ELSE LET item == Head(items)
             cls == model_of_type(item.furniture_type)
             price == IF Found(db.furniture[cls], item.furniture_id)
                      THEN db.furniture[cls][item.furniture_id].price
                      ELSE dict_get(json_loads(item.furniture_data), "price", 0)
         IN  price * item.quantity + SumLivePrice(db, Tail(items))

calculate_total_price_live(db, cart_id) == SumLivePrice(db, get_items(db, cart_id))

calculate_total_price(db, cart_id) == SumPrice(get_items(db, cart_id))

calculate_total_quantity(db, cart_id) == SumQuantity(get_items(db, cart_id))

\* ShoppingCart.get_cart_summary
get_cart_summary(db, cart) ==
    LET items == get_items(db, cart.id)
    IN  [customer |-> [name |-> cart.customer_name, email |-> cart.customer_email],
         items |-> [n \in DOMAIN items |->
                      LET furniture_dict_n == json_loads(items[n].furniture_data)
                      IN  [type |-> items[n].furniture_type,
                           name |-> dict_get(furniture_dict_n, "name", "Unknown"),
                           price |-> dict_get(furniture_dict_n, "price", 0),
                           quantity |-> items[n].quantity,
                           subtotal |-> dict_get(furniture_dict_n, "price", 0)
                                          * items[n].quantity]],
         total_items |-> calculate_total_quantity(db, cart.id),
         total_price |-> calculate_total_price(db, cart.id)]

get_cart_items(db, cart_id) ==
    IF ~Found(db.shoppingcart, cart_id)
    THEN HTTPException(db, 404, "Shopping cart not found")
    ELSE Return(db, get_cart_summary(db, db.shoppingcart[cart_id]))

read_cart(db, cart_id) ==
    IF ~Found(db.shoppingcart, cart_id)
    THEN HTTPException(db, 404, "Shopping cart not found")
    ELSE Return(db, db.shoppingcart[cart_id])

get_cart_total(db, cart_id) ==
    IF ~Found(db.shoppingcart, cart_id)
    THEN HTTPException(db, 404, "Shopping cart not found")
    ELSE Return(db, [cart_id |-> cart_id,
                     customer_name |-> db.shoppingcart[cart_id].customer_name,
                     total_price |-> calculate_total_price(db, cart_id),
                     total_quantity |-> calculate_total_quantity(db, cart_id)])

\* ----------------------------------------------------------- the actions
\* no request is between two of its statements
NoRequest == [pc |-> "idle"]

Init ==
    /\ furniture = [cls \in FurnitureClasses |-> EmptyTable]
    /\ shoppingcart = EmptyTable
    /\ cartitem = EmptyTable
    /\ today = 0
    /\ import_date = today
    /\ adding = NoRequest
    /\ deleting = NoRequest

\* the tables hold at most MaxFurnitureId, MaxCartId and MaxItemId rowids
InBounds(db) ==
    /\ \A cls \in FurnitureClasses : DOMAIN db.furniture[cls] \subseteq FurnitureIds
    /\ DOMAIN db.shoppingcart \subseteq CartIds
    /\ DOMAIN db.cartitem \subseteq ItemIds

\* the session of a request leaves the database of its response
Commit(r) ==
    /\ furniture' = r.db.furniture
    /\ shoppingcart' = r.db.shoppingcart
    /\ cartitem' = r.db.cartitem
    /\ UNCHANGED <<today, import_date, adding, deleting>>

CreateFurniture(cls) ==
    \E data \in FurnitureBodies(cls) :
        LET r == create_furniture(database, cls, data)
        IN  InBounds(r.db) /\ Commit(r)

UpdateFurniture(cls) ==
    \E id \in FurnitureIds, data \in UpdateBodies :
        LET r == update_furniture(database, cls, id, data)
        IN  InBounds(r.db) /\ Commit(r)

DeleteFurniture(cls) ==
    \E id \in FurnitureIds :
        LET r == delete_furniture(database, cls, id)
        IN  InBounds(r.db) /\ Commit(r)

CreateSofa == TRUE /\ CreateFurniture("IkeaSofa")
CreateDiningTable == TRUE /\ CreateFurniture("IkeaDiningTable")
CreateMattress == TRUE /\ CreateFurniture("IkeaMatress")

UpdateSofa == TRUE /\ UpdateFurniture("IkeaSofa")
UpdateDiningTable == TRUE /\ UpdateFurniture("IkeaDiningTable")
UpdateMattress == TRUE /\ UpdateFurniture("IkeaMatress")

DeleteSofa == TRUE /\ DeleteFurniture("IkeaSofa")
DeleteDiningTable == TRUE /\ DeleteFurniture("IkeaDiningTable")
DeleteMattress == TRUE /\ DeleteFurniture("IkeaMatress")

CreateCart ==
    \E cart \in CartBodies :
        LET r == create_cart(database, cart)
        IN  InBounds(r.db) /\ Commit(r)

DeleteCart ==
    \E cart_id \in CartIds :
        LET r == delete_cart(database, cart_id)
        IN  InBounds(r.db) /\ Commit(r)

AddItemToCart ==
    \E cart_id \in CartIds, furniture_type \in FurnitureTypeInputs,
       furniture_id \in FurnitureIds, quantity \in Quantities :
        LET r == add_item_to_cart(database, cart_id, furniture_type, furniture_id, quantity)
        IN  InBounds(r.db) /\ Commit(r)

UpdateCartItem ==
    \E cart_id \in CartIds, item_id \in ItemIds, quantity \in Quantities :
        LET r == update_cart_item(database, cart_id, item_id, quantity)
        IN  InBounds(r.db) /\ Commit(r)

RemoveCartItem ==
    \E cart_id \in CartIds, item_id \in ItemIds :
        LET r == remove_cart_item(database, cart_id, item_id)
        IN  InBounds(r.db) /\ Commit(r)

GetCartTotal ==
    \E cart_id \in CartIds :
        LET r == get_cart_total(database, cart_id)
        IN  InBounds(r.db) /\ Commit(r)

Next ==
    \/ CreateSofa \/ CreateDiningTable \/ CreateMattress
    \/ UpdateSofa \/ UpdateDiningTable \/ UpdateMattress
    \/ DeleteSofa \/ DeleteDiningTable \/ DeleteMattress
    \/ CreateCart
    \/ DeleteCart
    \/ AddItemToCart
    \/ UpdateCartItem
    \/ RemoveCartItem
    \/ GetCartTotal

Spec == Init /\ [][Next]_vars

\* ------------------------------------------- the carts over a sofa catalog
UpdateCart ==
    \E cart_id \in CartIds, cart_data \in UpdateCartBodies :
        LET r == update_cart(database, cart_id, cart_data)
        IN  InBounds(r.db) /\ Commit(r)

ReadCart ==
    \E cart_id \in CartIds :
        LET r == read_cart(database, cart_id)
        IN  InBounds(r.db) /\ Commit(r)

GetCartItems ==
    \E cart_id \in CartIds :
        LET r == get_cart_items(database, cart_id)
        IN  InBounds(r.db) /\ Commit(r)

NextCart ==
    \/ CreateSofa \/ UpdateSofa \/ DeleteSofa
    \/ CreateCart
    \/ ReadCart
    \/ GetCartItems
    \/ GetCartTotal
    \/ UpdateCart
    \/ DeleteCart
    \/ AddItemToCart
    \/ UpdateCartItem
    \/ RemoveCartItem

SpecCart == Init /\ [][NextCart]_vars

\* ------------------------------------------------ the catalog over days
\* the three tables hold at most MaxCatalogRows rows, of ids up to MaxCatalogId
RECURSIVE CountRows(_, _)
CountRows(db, classes) ==
    IF classes = {} THEN 0
    ELSE LET cls == CHOOSE c \in classes : TRUE
         IN  Cardinality(DOMAIN db.furniture[cls]) + CountRows(db, classes \ {cls})

InCatalogBounds(db) ==
    /\ \A cls \in FurnitureClasses : DOMAIN db.furniture[cls] \subseteq CatalogIds
    /\ CountRows(db, FurnitureClasses) <= MaxCatalogRows

CatalogCreate ==
    \E cls \in FurnitureClasses :
        \E data \in FurnitureBodies(cls) :
            LET r == create_furniture(database, cls, data)
            IN  InCatalogBounds(r.db) /\ Commit(r)

CatalogRead ==
    \E cls \in FurnitureClasses, id \in CatalogIds :
        LET r == read_furniture(database, cls, id)
        IN  InCatalogBounds(r.db) /\ Commit(r)

CatalogUpdate ==
    \E cls \in FurnitureClasses, id \in CatalogIds, data \in CatalogUpdateBodies :
        LET r == update_furniture(database, cls, id, data)
        IN  InCatalogBounds(r.db) /\ Commit(r)

CatalogDelete ==
    \E cls \in FurnitureClasses, id \in CatalogIds :
        LET r == delete_furniture(database, cls, id)
        IN  InCatalogBounds(r.db) /\ Commit(r)

\* midnight passes while the process runs
Tick ==
    /\ today < MaxDay
    /\ today' = today + 1
    /\ UNCHANGED <<furniture, shoppingcart, cartitem, import_date, adding, deleting>>

NextCatalog ==
    \/ CatalogCreate
    \/ CatalogRead
    \/ CatalogUpdate
    \/ CatalogDelete
    \/ Tick

SpecCatalog == Init /\ [][NextCatalog]_vars

\* ------------------------------------------------- the lists of a catalog
\* the create bodies: two materials, the variant fields varied
ListBodies(cls) ==
    CASE cls = "IkeaSofa" ->
           [name : Names, price : Prices, material : {"Leather", "Fabric"},
            has_sleeper : BOOLEAN]
      [] cls = "IkeaDiningTable" ->
           [name : Names, price : Prices, material : {"Wood", "Leather"},
            shape : {"Round"}, extendable : BOOLEAN]
      [] cls = "IkeaMatress" ->
           [name : Names, price : Prices, material : {"Latex", "Leather"},
            size : {"Queen"}, firmness : {"Firm", "Soft"}]

\* the query parameters of the list requests
ListSkips == Optional({1})
ListLimits == Optional({1})

Filters(cls) ==
    CASE cls = "IkeaSofa" ->
           [material : Optional({"", "Leather"}), min_price : Optional({MaxPrice}),
            max_price : Optional({1}), has_sleeper : Optional(BOOLEAN)]
      [] cls = "IkeaDiningTable" ->
           [material : Optional({"", "Leather"}), min_price : Optional({MaxPrice}),
            max_price : Optional({1}), shape : Optional({"Round", "Square"}),
            extendable : Optional(BOOLEAN)]
      [] cls = "IkeaMatress" ->
           [material : Optional({"", "Leather"}), min_price : Optional({MaxPrice}),
            max_price : Optional({1}), size : Optional({"Queen"}),
            firmness : Optional({"", "Firm"})]

ListCreate ==
    \E cls \in FurnitureClasses :
        \E data \in ListBodies(cls) :
            LET r == create_furniture(database, cls, data)
            IN  InCatalogBounds(r.db) /\ Commit(r)

ReadSofas ==
    \E skip \in ListSkips, limit \in ListLimits, f \in Filters("IkeaSofa") :
        LET r == read_sofas(database, skip, limit,
                            f.material, f.min_price, f.max_price, f.has_sleeper)
        IN  InCatalogBounds(r.db) /\ Commit(r)

ReadDiningTables ==
    \E skip \in ListSkips, limit \in ListLimits, f \in Filters("IkeaDiningTable") :
        LET r == read_dining_tables(database, skip, limit,
                    f.material, f.min_price, f.max_price, f.shape, f.extendable)
        IN  InCatalogBounds(r.db) /\ Commit(r)

ReadMattresses ==
    \E skip \in ListSkips, limit \in ListLimits, f \in Filters("IkeaMatress") :
        LET r == read_mattresses(database, skip, limit,
                    f.material, f.min_price, f.max_price, f.size, f.firmness)
        IN  InCatalogBounds(r.db) /\ Commit(r)

NextList ==
    \/ ListCreate
    \/ CatalogDelete
    \/ ReadSofas
    \/ ReadDiningTables
    \/ ReadMattresses

SpecList == Init /\ [][NextList]_vars

\* ------------------------------------------------------ the pages of a list
\* one of the sofa and cart tables is filled at a time, up to MaxPageRows rows
InPageBounds(db) ==
    /\ Cardinality(DOMAIN db.furniture["IkeaSofa"]) <= MaxPageRows
    /\ Cardinality(DOMAIN db.shoppingcart) <= MaxPageRows
    /\ DOMAIN db.furniture["IkeaSofa"] = {} \/ DOMAIN db.shoppingcart = {}

\* the first MaxVariedRows sofas are of either material, the later ones of one
PageCreateSofa ==
    \E data \in ListBodies("IkeaSofa") :
        /\ data.price = 1 /\ ~data.has_sleeper
        /\ \/ Cardinality(DOMAIN furniture["IkeaSofa"]) < MaxVariedRows
           \/ data.material = "Leather"
        /\ LET r == create_furniture(database, "IkeaSofa", data)
           IN  InPageBounds(r.db) /\ Commit(r)

PageCreateCart ==
    \E cart \in CartBodies :
        LET r == create_cart(database, cart)
        IN  InPageBounds(r.db) /\ Commit(r)

PageSkips == Optional({1, DefaultLimit})
PageLimits == Optional({0, 2})
PageMaterials == Optional({"Leather"})
PageCustomerNames == Optional({"John", "Jane"})

PageReadSofas ==
    \E skip \in PageSkips, limit \in PageLimits, material \in PageMaterials :
        LET r == read_sofas(database, skip, limit, material, <<>>, <<>>, <<>>)
        IN  InPageBounds(r.db) /\ Commit(r)

PageReadCarts ==
    \E skip \in PageSkips, limit \in PageLimits, customer_name \in PageCustomerNames :
        LET r == read_carts(database, skip, limit, customer_name)
        IN  InPageBounds(r.db) /\ Commit(r)

NextPage ==
    \/ PageCreateSofa
    \/ PageCreateCart
    \/ PageReadSofas
    \/ PageReadCarts

SpecPage == Init /\ [][NextPage]_vars

\* ---------------------------------------- two requests on one cart at once
\* Each request has its own Session (get_session) and the handlers run in
\* worker threads, so the statements of add_item_to_cart and of delete_cart
\* on one cart interleave.  A session.get or session.exec is a SELECT that
\* sees the database of that moment; the writes of a session reach the
\* database in its session.commit.  The cartitem table is created without
\* enforcement of its foreign key (the engine never sets PRAGMA foreign_keys).
Idle == adding.pc = "idle" /\ deleting.pc = "idle"

\* the requests are over
Final == adding.pc = "done" /\ deleting.pc = "done"

\* the catalog, the carts and their items are set up by whole requests
RaceSetup ==
    /\ Idle
    /\ CreateSofa \/ CreateCart \/ AddItemToCart

\* POST /carts/{cart_id}/items and DELETE /carts/{cart_id} arrive together
RaceBegin ==
    /\ Idle
    /\ NextId(cartitem) \in ItemIds
    /\ \E cart_id \in CartIds, furniture_type \in FurnitureTypeInputs,
          furniture_id \in FurnitureIds, quantity \in Quantities :
        /\ adding' = [pc |-> "get_cart", cart_id |-> cart_id,
                      furniture_type |-> furniture_type,
                      furniture_id |-> furniture_id, quantity |-> quantity]
        /\ deleting' = [pc |-> "get_cart", cart_id |-> cart_id]
    /\ UNCHANGED <<furniture, shoppingcart, cartitem, today, import_date>>

\* add_item_to_cart: cart = session.get(ShoppingCart, cart_id)
AddGetCart ==
    /\ adding.pc = "get_cart"
    /\ adding' = IF ~Found(shoppingcart, adding.cart_id)
                 THEN [pc |-> "done", cart_id |-> adding.cart_id, status_code |-> 404]
                 ELSE [adding EXCEPT !.pc = "get_furniture"]
    /\ UNCHANGED <<furniture, shoppingcart, cartitem, today, import_date, deleting>>

\* add_item_to_cart: furniture = session.get(<model of the tag>, furniture_id)
AddGetFurniture ==
    /\ adding.pc = "get_furniture"
    /\ LET cls == model_of_type(adding.furniture_type)
       IN  adding' =
             IF cls = "None"
             THEN [pc |-> "done", cart_id |-> adding.cart_id, status_code |-> 400]
             ELSE IF ~Found(furniture[cls], adding.furniture_id)
             THEN [pc |-> "done", cart_id |-> adding.cart_id, status_code |-> 404]
             ELSE [pc |-> "add_item", cart_id |-> adding.cart_id, cls |-> cls,
                   furniture |-> furniture[cls][adding.furniture_id],
                   quantity |-> adding.quantity]
    /\ UNCHANGED <<furniture, shoppingcart, cartitem, today, import_date, deleting>>

\* ShoppingCart.add_item: session.add(cart_item); session.commit(), with the
\* cart and the record this session loaded
AddCommit ==
    /\ adding.pc = "add_item"
    /\ LET cart_item == add_item(database, [id |-> adding.cart_id], adding.cls,
                                 adding.furniture, adding.quantity)
       IN  /\ cart_item.id \in ItemIds
           /\ cartitem' = Insert(cartitem, cart_item)
    /\ adding' = [pc |-> "done", cart_id |-> adding.cart_id, status_code |-> 200]
    /\ UNCHANGED <<furniture, shoppingcart, today, import_date, deleting>>

\* delete_cart: cart = session.get(ShoppingCart, cart_id)
DeleteGetCart ==
    /\ deleting.pc = "get_cart"
    /\ deleting' = IF ~Found(shoppingcart, deleting.cart_id)
                   THEN [pc |-> "done", cart_id |-> deleting.cart_id, status_code |-> 404]
                   ELSE [deleting EXCEPT !.pc = "select_items"]
    /\ UNCHANGED <<furniture, shoppingcart, cartitem, today, import_date, adding>>

\* delete_cart: cart_items = session.exec(select(CartItem).where(...)).all()
DeleteSelectItems ==
    /\ deleting.pc = "select_items"
    /\ deleting' = [pc |-> "commit", cart_id |-> deleting.cart_id,
                    cart_items |-> get_items(database, deleting.cart_id)]
    /\ UNCHANGED <<furniture, shoppingcart, cartitem, today, import_date, adding>>

\* delete_cart: session.delete of the items read and of the cart, and
\* session.commit()
DeleteCommit ==
    /\ deleting.pc = "commit"
    /\ cartitem' = DeleteAll(cartitem, deleting.cart_items)
    /\ shoppingcart' = Delete(shoppingcart, deleting.cart_id)
    /\ deleting' = [pc |-> "done", cart_id |-> deleting.cart_id, status_code |-> 200]
    /\ UNCHANGED <<furniture, today, import_date, adding>>

NextRace ==
    \/ RaceSetup
    \/ RaceBegin
    \/ AddGetCart
    \/ AddGetFurniture
    \/ AddCommit
    \/ DeleteGetCart
    \/ DeleteSelectItems
    \/ DeleteCommit

SpecRace == Init /\ [][NextRace]_vars

TypeOK ==
    /\ \A cls \in FurnitureClasses : DOMAIN furniture[cls] \subseteq FurnitureIds
    /\ DOMAIN shoppingcart \subseteq CartIds
    /\ DOMAIN cartitem \subseteq ItemIds

\* ------------------------------------------------- vocabulary of the claims
\* the Line Items a cart owns
ItemsOf(db, cart_id) == {i \in DOMAIN db.cartitem : db.cartitem[i].cart_id = cart_id}

\* the value the snapshot text stores under a key
SnapshotField(item, key) ==
    LET j == CHOOSE j \in DOMAIN item.furniture_data : item.furniture_data[j][1] = key
    IN  item.furniture_data[j][2]

SnapshotPrice(item) == SnapshotField(item, "price")

\* the Catalog table a Line Item's tag names
ClassOf(item) == CHOOSE cls \in FurnitureClasses : furniture_type_map(cls) = item.furniture_type

\* the Line Item's source Catalog Record is still in the catalog
HasRecord(db, item) == item.furniture_id \in DOMAIN db.furniture[ClassOf(item)]

RecordOf(db, item) == db.furniture[ClassOf(item)][item.furniture_id]

RECURSIVE SumSubtotals(_, _)
SumSubtotals(db, S) ==
    IF S = {} THEN 0
    ELSE LET i == CHOOSE i \in S : TRUE
         IN  SnapshotPrice(db.cartitem[i]) * db.cartitem[i].quantity
             + SumSubtotals(db, S \ {i})

RECURSIVE SumQuantities(_, _)
SumQuantities(db, S) ==
    IF S = {} THEN 0
    ELSE LET i == CHOOSE i \in S : TRUE
         IN  db.cartitem[i].quantity + SumQuantities(db, S \ {i})

\* a table without some of its rows
Without(table, ids) == [i \in DOMAIN table \ ids |-> table[i]]

\* ------------------------------------------------------------------ claims
\* C1: the snapshot price of a Line Item is the price its Catalog Record had
\* when add_item ran, it never changes afterwards, and a step that changes
\* the catalog changes no cart's total_price and no line's subtotal.
C1_SnapshotPriceFrozen ==
    [][
        /\ \/ cartitem' = cartitem
           \/ \A i \in DOMAIN cartitem' :
                IF i \in DOMAIN cartitem
                THEN SnapshotPrice(cartitem'[i]) = SnapshotPrice(cartitem[i])
                ELSE /\ HasRecord(database, cartitem'[i])
                     /\ SnapshotPrice(cartitem'[i]) = RecordOf(database, cartitem'[i]).price
        /\ furniture' # furniture =>
            /\ \A c \in DOMAIN shoppingcart :
                 calculate_total_price(database', c) = calculate_total_price(database, c)
            /\ \A k \in DOMAIN cartitem :
                 /\ k \in DOMAIN cartitem'
                 /\ item_details(cartitem'[k]).subtotal = item_details(cartitem[k]).subtotal
                 /\ item_details(cartitem[k]).subtotal
                      = SnapshotPrice(cartitem[k]) * cartitem[k].quantity
    ]_vars

\* a Line Item bought at a price its Catalog Record no longer has, in a cart
\* whose total still counts the old price
C1_Witness ==
    \E i \in DOMAIN cartitem :
        /\ HasRecord(database, cartitem[i])
        /\ RecordOf(database, cartitem[i]).price # SnapshotPrice(cartitem[i])
        /\ cartitem[i].quantity > 0
        /\ ItemsOf(database, cartitem[i].cart_id) = {i}
        /\ calculate_total_price(database, cartitem[i].cart_id)
             = SnapshotPrice(cartitem[i]) * cartitem[i].quantity

\* C2: total_price of a cart is the sum of snapshot.price * quantity over
\* exactly the Line Items of that cart, and 0 for a cart without Line Items.
C2_TotalPrice ==
    \A c \in DOMAIN shoppingcart :
        LET r == get_cart_total(database, c)
        IN  /\ r.status_code = 200
            /\ r.db = database
            /\ r.body.total_price = SumSubtotals(database, ItemsOf(database, c))
            /\ ItemsOf(database, c) = {} => r.body.total_price = 0

\* two carts that both own a Line Item of a nonzero subtotal
C2_Witness ==
    \E c1, c2 \in DOMAIN shoppingcart :
        /\ c1 # c2
        /\ get_cart_total(database, c1).body.total_price > 0
        /\ get_cart_total(database, c2).body.total_price > 0
        /\ get_cart_total(database, c1).body.total_price
             # get_cart_total(database, c2).body.total_price

\* C3: total_quantity of a cart is the sum of quantity over exactly the Line
\* Items of that cart, 0 for a cart without Line Items, and a successful
\* update_item_quantity(cart, item, q) changes it by q minus the old quantity.
C3_TotalQuantity ==
    \A c \in DOMAIN shoppingcart :
        LET r == get_cart_total(database, c)
        IN  /\ r.status_code = 200
            /\ r.body.total_quantity = SumQuantities(database, ItemsOf(database, c))
            /\ ItemsOf(database, c) = {} => r.body.total_quantity = 0
            /\ \A i \in ItemsOf(database, c), q \in Quantities :
                 LET u == update_cart_item(database, c, i, q)
                 IN  /\ u.status_code = 200
                     /\ get_cart_total(u.db, c).body.total_quantity
                          = r.body.total_quantity + q - cartitem[i].quantity

\* two carts with Line Items, the two totals different and one positive
C3_Witness ==
    \E c1, c2 \in DOMAIN shoppingcart :
        /\ c1 # c2
        /\ ItemsOf(database, c1) # {}
        /\ ItemsOf(database, c2) # {}
        /\ get_cart_total(database, c1).body.total_quantity > 0
        /\ get_cart_total(database, c2).body.total_quantity
             # get_cart_total(database, c1).body.total_quantity

\* the response reports a new Line Item of the cart and the database holds it
CreatedItem(db, r, cart_id) ==
    /\ r.status_code = 200
    /\ r.body.id \notin DOMAIN db.cartitem
    /\ DOMAIN r.db.cartitem = DOMAIN db.cartitem \cup {r.body.id}
    /\ r.db.cartitem[r.body.id].cart_id = cart_id

\* the response is an error of the given status and the database is as before
Signals(db, r, status_code) == r.status_code = status_code /\ r.db = db

\* add_item on an existing cart accepts exactly the tags of tag_class, each
\* naming the table it is mapped to
AcceptsExactly(tag_class) ==
    \A c \in DOMAIN shoppingcart, ft \in FurnitureTypeInputs,
       fid \in FurnitureIds, q \in Quantities :
        LET r == add_item_to_cart(database, c, ft, fid, q)
        IN  IF ft \in DOMAIN tag_class
            THEN /\ fid \in DOMAIN furniture[tag_class[ft]] =>
                      CreatedItem(database, r, c) /\ r.body.furniture_type = ft
                 /\ fid \notin DOMAIN furniture[tag_class[ft]] => Signals(database, r, 404)
            ELSE Signals(database, r, 400)

\* C4 as stated: add_item on an existing cart accepts exactly the tags "sofa",
\* "dining_table" and "mattress" and answers 400, creating nothing, to any other.
C4_Original ==
    AcceptsExactly([sofa |-> "IkeaSofa", dining_table |-> "IkeaDiningTable",
                    mattress |-> "IkeaMatress"])

\* C4 as amended: add_item on an existing cart accepts exactly the tags "sofa",
\* "dining_table" and "matress" (one t): with one of them and an existing
\* record of that kind it creates a Line Item, and with any other tag, the
\* spelling "mattress" included, it answers 400 and creates nothing.
C4_AcceptedTags ==
    AcceptsExactly([sofa |-> "IkeaSofa", dining_table |-> "IkeaDiningTable",
                    matress |-> "IkeaMatress"])

\* a cart and a mattress record: "matress" adds it, "mattress" is refused
C4_Witness ==
    \E c \in DOMAIN shoppingcart, fid \in DOMAIN furniture["IkeaMatress"] :
        /\ add_item_to_cart(database, c, "matress", fid, 1).status_code = 200
        /\ add_item_to_cart(database, c, "mattress", fid, 1).status_code = 400
        /\ \E i \in DOMAIN cartitem : cartitem[i].furniture_type = "matress"

\* C5: a successful add_item adds exactly one Line Item to the cart, with a
\* fresh id and the given quantity, type and furniture_id, and leaves every
\* existing Line Item (of the same furniture too) as it was.
C5_NoMerge ==
    \A c \in CartIds, ft \in FurnitureTypeInputs, fid \in FurnitureIds, q \in Quantities :
        LET r == add_item_to_cart(database, c, ft, fid, q)
        IN  r.status_code = 200 =>
              /\ Cardinality(ItemsOf(r.db, c)) = Cardinality(ItemsOf(database, c)) + 1
              /\ r.body.id \notin DOMAIN cartitem
              /\ DOMAIN r.db.cartitem = DOMAIN cartitem \cup {r.body.id}
              /\ r.db.cartitem[r.body.id].quantity = q
              /\ r.db.cartitem[r.body.id].furniture_type = ft
              /\ r.db.cartitem[r.body.id].furniture_id = fid
              /\ r.db.cartitem[r.body.id].cart_id = c
              /\ \A i \in DOMAIN cartitem : r.db.cartitem[i] = cartitem[i]

\* the same furniture twice in one cart, as two lines of different quantity,
\* and a third add of it would again leave both as they are
C5_Witness ==
    \E i, j \in DOMAIN cartitem :
        /\ i # j
        /\ cartitem[i].cart_id = cartitem[j].cart_id
        /\ cartitem[i].furniture_type = cartitem[j].furniture_type
        /\ cartitem[i].furniture_id = cartitem[j].furniture_id
        /\ cartitem[i].quantity # cartitem[j].quantity
        /\ HasRecord(database, cartitem[i])
        /\ add_item_to_cart(database, cartitem[i].cart_id, cartitem[i].furniture_type,
                            cartitem[i].furniture_id, 1).status_code = 200

\* C6: remove_item(cart, item) answers Not-Found when the item does not exist
\* or belongs to another cart, and then nothing changes; otherwise it removes
\* exactly that Line Item.
C6_RemoveItem ==
    \A c \in CartIds, i \in ItemIds :
        LET r == remove_cart_item(database, c, i)
        IN  IF i \notin DOMAIN cartitem \/ cartitem[i].cart_id # c
            THEN Signals(database, r, 404)
            ELSE /\ r.status_code = 200
                 /\ r.db.cartitem = Without(cartitem, {i})
                 /\ r.db.shoppingcart = shoppingcart
                 /\ r.db.furniture = furniture

\* an item of one cart: removing it through the other cart is refused,
\* removing it through its own cart leaves the other line
C6_Witness ==
    \E c1, c2 \in DOMAIN shoppingcart, i, j \in DOMAIN cartitem :
        /\ c1 # c2 /\ i # j
        /\ cartitem[i].cart_id = c1
        /\ remove_cart_item(database, c2, i).status_code = 404
        /\ remove_cart_item(database, c1, i).status_code = 200
        /\ j \in DOMAIN remove_cart_item(database, c1, i).db.cartitem

\* C7: update_item_quantity(cart, item, q) answers Not-Found, changing
\* nothing, when the cart or the item does not exist or the item belongs to
\* another cart; otherwise it sets the quantity of that item to q and returns
\* subtotal = stored snapshot price * q.
C7_UpdateQuantity ==
    \A c \in CartIds, i \in ItemIds, q \in Quantities :
        LET r == update_cart_item(database, c, i, q)
        IN  IF c \notin DOMAIN shoppingcart \/ i \notin DOMAIN cartitem
               \/ cartitem[i].cart_id # c
            THEN Signals(database, r, 404)
            ELSE /\ r.status_code = 200
                 /\ r.db.cartitem = [cartitem EXCEPT ![i].quantity = q]
                 /\ r.db.shoppingcart = shoppingcart
                 /\ r.db.furniture = furniture
                 /\ r.body.quantity = q
                 /\ r.body.subtotal = SnapshotPrice(cartitem[i]) * q

\* an item whose record has changed its price since: its own cart updates it
\* at the snapshot price, the other cart is refused
C7_Witness ==
    \E c1, c2 \in DOMAIN shoppingcart, i \in DOMAIN cartitem :
        /\ c1 # c2
        /\ cartitem[i].cart_id = c1
        /\ HasRecord(database, cartitem[i])
        /\ RecordOf(database, cartitem[i]).price # SnapshotPrice(cartitem[i])
        /\ update_cart_item(database, c1, i, 1).body.subtotal = SnapshotPrice(cartitem[i])
        /\ update_cart_item(database, c2, i, 1).status_code = 404

\* C8: delete_cart on an existing cart removes the cart and every Line Item
\* of it and leaves the Line Items of the other carts; on a cart that does
\* not exist it answers Not-Found and changes nothing.
C8_DeleteCart ==
    \A c \in CartIds :
        LET r == delete_cart(database, c)
        IN  IF c \notin DOMAIN shoppingcart
            THEN Signals(database, r, 404)
            ELSE /\ r.status_code = 200
                 /\ r.db.shoppingcart = Without(shoppingcart, {c})
                 /\ ItemsOf(r.db, c) = {}
                 /\ r.db.cartitem = Without(cartitem, ItemsOf(database, c))
                 /\ r.db.furniture = furniture

\* two carts with a Line Item each: deleting one keeps the other's
C8_Witness ==
    \E c1, c2 \in DOMAIN shoppingcart :
        /\ c1 # c2
        /\ ItemsOf(database, c1) # {}
        /\ ItemsOf(database, c2) # {}
        /\ delete_cart(database, c1).status_code = 200
        /\ DOMAIN delete_cart(database, c1).db.cartitem = ItemsOf(database, c2)

\* C9: deleting a Catalog Record deletes and changes no Line Item, and the
\* total_price and total_quantity of every cart are as before.
C9_NoCascade ==
    \A cls \in FurnitureClasses, id \in FurnitureIds :
        LET r == delete_furniture(database, cls, id)
        IN  /\ id \in DOMAIN furniture[cls] =>
                 r.status_code = 200 /\ id \notin DOMAIN r.db.furniture[cls]
            /\ r.db.cartitem = cartitem
            /\ r.db.shoppingcart = shoppingcart
            /\ \A c \in DOMAIN shoppingcart :
                 get_cart_total(r.db, c).body = get_cart_total(database, c).body

\* a Line Item whose record has been deleted still counts in its cart
C9_Witness ==
    \E i \in DOMAIN cartitem :
        /\ ~HasRecord(database, cartitem[i])
        /\ cartitem[i].quantity > 0
        /\ get_cart_total(database, cartitem[i].cart_id).body.total_price > 0

\* C10 as stated: every Line Item in the store has quantity >= 1.
C10_PositiveQuantity == \A i \in DOMAIN cartitem : cartitem[i].quantity >= 1

\* C11: once created, a Line Item keeps its cart, its furniture_type, its
\* furniture_id and its snapshot: no step changes them, the quantity is the
\* only field a step changes.
C11_ItemFrozen ==
    [][
        \/ cartitem' = cartitem
        \/ \A i \in DOMAIN cartitem \cap DOMAIN cartitem' :
             cartitem'[i] = [cartitem[i] EXCEPT !.quantity = cartitem'[i].quantity]
    ]_vars

\* the cart details and the quantity of a line were updated after its record
\* was repriced: the line still carries the old snapshot
C11_Witness ==
    \E i \in DOMAIN cartitem :
        /\ shoppingcart[cartitem[i].cart_id].customer_name = "Jane Roe"
        /\ HasRecord(database, cartitem[i])
        /\ SnapshotField(cartitem[i], "price") # RecordOf(database, cartitem[i]).price
        /\ update_cart_item(database, cartitem[i].cart_id, i, 0).db.cartitem[i].furniture_data
             = cartitem[i].furniture_data
        /\ cartitem[i].quantity = 0

\* C12: add_item returns the id, type and quantity of the Line Item it
\* created and subtotal = snapshot.price * quantity, the snapshot price being
\* the price of the Catalog Record at the call, and the total_price of the
\* cart (get_cart_total answers calculate_total_price) grows by exactly that
\* subtotal.
C12_AddItemResponse ==
    \A c \in CartIds, ft \in FurnitureTypeInputs, fid \in FurnitureIds, q \in Quantities :
        LET r == add_item_to_cart(database, c, ft, fid, q)
        IN  r.status_code = 200 =>
              LET item == r.db.cartitem[r.body.id]
                  record == RecordOf(database, item)
              IN  /\ r.body.id \notin DOMAIN cartitem
                  /\ r.body.furniture_type = ft /\ item.furniture_type = ft
                  /\ r.body.quantity = q /\ item.quantity = q
                  /\ item.furniture_id = fid /\ record.id = fid
                  /\ SnapshotPrice(item) = record.price
                  /\ r.body.price = record.price
                  /\ r.body.subtotal = record.price * q
                  /\ calculate_total_price(r.db, c)
                       = calculate_total_price(database, c) + r.body.subtotal

\* a cart with a line bought at another price than the record has now: a
\* further add of the record is priced at the current price
C12_Witness ==
    \E i \in DOMAIN cartitem :
        /\ HasRecord(database, cartitem[i])
        /\ cartitem[i].quantity > 0
        /\ RecordOf(database, cartitem[i]).price > SnapshotPrice(cartitem[i])
        /\ LET r == add_item_to_cart(database, cartitem[i].cart_id,
                        cartitem[i].furniture_type, cartitem[i].furniture_id, 1)
           IN  /\ r.status_code = 200
               /\ r.body.subtotal = RecordOf(database, cartitem[i]).price
               /\ get_cart_total(r.db, cartitem[i].cart_id).body.total_price
                    > r.body.subtotal

C14_CreateDefaults ==
    \A cls \in FurnitureClasses :
        \A data \in FurnitureBodies(cls) :
            LET r == create_furniture(database, cls, data)
                got == read_furniture(r.db, cls, r.body.id)
            IN  /\ r.status_code = 200
                /\ r.body.id \notin DOMAIN furniture[cls]
                /\ got.status_code = 200
                /\ got.body = r.body
                /\ \A k \in DOMAIN data : got.body[k] = data[k]
                /\ got.body.in_stock = TRUE
                /\ got.body.date_added = today

\* C15: get, update and delete of an id without a record answer 404 and
\* change nothing, and after a successful delete of an id a get of it
\* answers 404.
C15_NotFound ==
    \A cls \in FurnitureClasses, id \in CatalogIds :
        IF ~Found(furniture[cls], id)
        THEN /\ read_furniture(database, cls, id).status_code = 404
             /\ read_furniture(database, cls, id).db = database
             /\ delete_furniture(database, cls, id).status_code = 404
             /\ delete_furniture(database, cls, id).db = database
             /\ \A data \in CatalogUpdateBodies :
                  /\ update_furniture(database, cls, id, data).status_code = 404
                  /\ update_furniture(database, cls, id, data).db = database
        ELSE LET r == delete_furniture(database, cls, id)
             IN  /\ r.status_code = 200
                 /\ read_furniture(database, cls, id).status_code = 200
                 /\ read_furniture(r.db, cls, id).status_code = 404
                 /\ delete_furniture(r.db, cls, id).status_code = 404

\* a table whose first record was deleted and whose second is there: the
\* first id is Not-Found, and so is the second once it is deleted
C15_Witness ==
    \E cls \in FurnitureClasses :
        /\ DOMAIN furniture[cls] = {2}
        /\ read_furniture(database, cls, 1).status_code = 404
        /\ read_furniture(database, cls, 2).status_code = 200
        /\ read_furniture(delete_furniture(database, cls, 2).db, cls, 2).status_code = 404

\* the rows are the page of the matching rows of the table: they are rows of
\* the table of matching ids, in rowid order without a matching id left out
\* between them, skip matching ids come before the first, and there are limit
\* of them or as many as are left
PageOf(rows, table, matching, skip, limit) ==
    /\ \A k \in DOMAIN rows :
        /\ rows[k].id \in matching
        /\ rows[k] = table[rows[k].id]
    /\ \A k \in 1..(Len(rows) - 1) :
        /\ rows[k].id < rows[k + 1].id
        /\ \A j \in (rows[k].id + 1)..(rows[k + 1].id - 1) : j \notin matching
    /\ rows # <<>> => Cardinality({j \in matching : j < rows[1].id}) = skip
    /\ LET left == Cardinality(matching) - skip
       IN  Len(rows) = IF left < 0 THEN 0 ELSE IF left < limit THEN left ELSE limit

\* C16 as the specification states it: a catalog list returns, within its
\* offset/limit window, exactly the records that satisfy every supplied
\* filter, whatever the supplied value; a filter left out excludes no record.
C16_ConjunctiveFilters ==
    \A cls \in FurnitureClasses, skip \in ListSkips, limit \in ListLimits :
        \A filters \in Filters(cls) :
            LET table == furniture[cls]
                matching == {i \in DOMAIN table :
                               \A key \in DOMAIN filters :
                                   filters[key] # <<>> =>
                                       Where(table[i], key, filters[key][1])}
            IN  PageOf(read_furnitures(database, cls, skip, limit, filters).body,
                       table, matching,
                       param_default(skip, DefaultSkip),
                       param_default(limit, DefaultLimit))

\* C16: a catalog list returns, within its offset/limit window, exactly the
\* records that satisfy every supplied filter, a text filter (material,
\* shape, size, firmness) whose value is the empty string counting as left
\* out; a filter left out excludes no record.
C16_AppliedFilters ==
    \A cls \in FurnitureClasses, skip \in ListSkips, limit \in ListLimits :
        \A filters \in Filters(cls) :
            LET table == furniture[cls]
                text == {"material", "shape", "size", "firmness"}
                matching == {i \in DOMAIN table :
                               \A key \in DOMAIN filters :
                                   (/\ filters[key] # <<>>
                                    /\ key \in text => filters[key][1] # "")
                                       => Where(table[i], key, filters[key][1])}
            IN  PageOf(read_furnitures(database, cls, skip, limit, filters).body,
                       table, matching,
                       param_default(skip, DefaultSkip),
                       param_default(limit, DefaultLimit))

\* two Leather sofas of prices 1 and 2: material Leather with min_price 2
\* lists the second alone, no filter lists both, and so does an empty material
C16_Witness ==
    LET table == furniture["IkeaSofa"]
    IN  /\ DOMAIN table = {1, 2}
        /\ table[1].material = "Leather" /\ table[1].price = 1
        /\ table[2].material = "Leather" /\ table[2].price = 2
        /\ read_sofas(database, <<>>, <<>>, <<"Leather">>, <<2>>, <<>>, <<>>).body
             = <<table[2]>>
        /\ read_sofas(database, <<>>, <<>>, <<>>, <<>>, <<>>, <<>>).body
             = <<table[1], table[2]>>
        /\ read_sofas(database, <<>>, <<>>, <<"">>, <<>>, <<>>, <<>>).body
             = <<table[1], table[2]>>

C18_UpdateCart ==
    \A c \in CartIds, cart_data \in UpdateCartBodies :
        LET r == update_cart(database, c, cart_data)
        IN  IF c \notin DOMAIN shoppingcart
            THEN r.status_code = 404 /\ r.db = database
            ELSE LET old == shoppingcart[c]
                     new == r.db.shoppingcart[c]
                 IN  /\ r.status_code = 200
                     /\ r.body = new
                     /\ new.id = c
                     /\ new.created_date = old.created_date
                     /\ new.customer_name = IF cart_data.customer_name = "None"
                                            THEN old.customer_name
                                            ELSE cart_data.customer_name
                     /\ new.customer_email = IF cart_data.customer_email = "None"
                                             THEN old.customer_email
                                             ELSE cart_data.customer_email
                     /\ r.db.cartitem = cartitem
                     /\ r.db.furniture = furniture
                     /\ r.db.shoppingcart = [shoppingcart EXCEPT ![c] = new]

\* a cart with a Line Item whose email was set by an update that left the name
\* out, and a body with another id and created_date that changes neither
C18_Witness ==
    \E c \in DOMAIN shoppingcart, cart_data \in UpdateCartBodies :
        /\ ItemsOf(database, c) # {}
        /\ shoppingcart[c].customer_name = "John Doe"
        /\ shoppingcart[c].customer_email = "jane@example.com"
        /\ cart_data.id # c
        /\ cart_data.created_date # shoppingcart[c].created_date
        /\ cart_data.customer_name = "None"
        /\ update_cart(database, c, cart_data).db = database

\* a response that is Not-Found or Invalid-Argument carries the database of
\* the request
Refusal(db, r) == r.status_code \in {400, 404} => r.db = db

\* C19: an operation that answers Not-Found or Invalid-Argument leaves the
\* carts, the Line Items and the Catalog Records as they were.
C19_NoPartialSuccess ==
    /\ \A c \in CartIds :
        /\ Refusal(database, delete_cart(database, c))
        /\ Refusal(database, get_cart_total(database, c))
        /\ \A i \in ItemIds :
            /\ Refusal(database, remove_cart_item(database, c, i))
            /\ \A q \in Quantities : Refusal(database, update_cart_item(database, c, i, q))
        /\ \A ft \in FurnitureTypeInputs, fid \in FurnitureIds, q \in Quantities :
            Refusal(database, add_item_to_cart(database, c, ft, fid, q))
    /\ \A cls \in FurnitureClasses, id \in FurnitureIds :
        /\ Refusal(database, read_furniture(database, cls, id))
        /\ Refusal(database, delete_furniture(database, cls, id))
        /\ \A data \in UpdateBodies :
            Refusal(database, update_furniture(database, cls, id, data))

\* a store with two carts and a Line Item, where an add is refused with 400, a
\* remove through the wrong cart with 404 and a catalog delete with 404
C19_Witness ==
    \E c1, c2 \in DOMAIN shoppingcart, i \in DOMAIN cartitem :
        /\ c1 # c2
        /\ cartitem[i].cart_id = c1
        /\ remove_cart_item(database, c2, i).status_code = 404
        /\ update_cart_item(database, c2, i, 1).status_code = 404
        /\ add_item_to_cart(database, c1, "chair", 1, 1).status_code = 400
        /\ \E cls \in FurnitureClasses : delete_furniture(database, cls, 1).status_code = 404

\* C20: add_item looks at the cart, then at the tag, then at the record: a
\* missing cart is Not-Found whatever the tag, on an existing cart an unknown
\* tag is Invalid-Argument whatever the furniture_id, and a known tag without
\* a record of that id is Not-Found.  The known tags are those of the source.
C20_AddItemOrder ==
    \A c \in CartIds, ft \in FurnitureTypeInputs, fid \in FurnitureIds, q \in Quantities :
        LET r == add_item_to_cart(database, c, ft, fid, q)
            known == {furniture_type_map(cls) : cls \in FurnitureClasses}
        IN  /\ c \notin DOMAIN shoppingcart =>
                 r.status_code = 404 /\ r.body.detail = "Shopping cart not found"
            /\ c \in DOMAIN shoppingcart /\ ft \notin known => r.status_code = 400
            /\ (/\ c \in DOMAIN shoppingcart
                /\ ft \in known
                /\ \A cls \in FurnitureClasses :
                     furniture_type_map(cls) = ft => fid \notin DOMAIN furniture[cls])
                 => r.status_code = 404 /\ r.body.detail = "Furniture not found"

\* one cart exists and one does not, one table has a record and one has none
C20_Witness ==
    \E c1, c2 \in CartIds :
        /\ c1 \in DOMAIN shoppingcart /\ c2 \notin DOMAIN shoppingcart
        /\ add_item_to_cart(database, c2, "chair", 1, 1).body.detail = "Shopping cart not found"
        /\ add_item_to_cart(database, c1, "chair", 1, 1).status_code = 400
        /\ add_item_to_cart(database, c1, "sofa", 1, 1).status_code = 200
        /\ add_item_to_cart(database, c1, "matress", 1, 1).body.detail = "Furniture not found"

\* every operation on the cart id answers Not-Found and changes nothing
CartGone(db, c) ==
    /\ read_cart(db, c).status_code = 404
    /\ get_cart_items(db, c).status_code = 404
    /\ get_cart_total(db, c).status_code = 404
    /\ delete_cart(db, c).status_code = 404 /\ delete_cart(db, c).db = db
    /\ \A cart_data \in UpdateCartBodies :
         update_cart(db, c, cart_data).status_code = 404
    /\ \A ft \in FurnitureTypeInputs, fid \in FurnitureIds, q \in Quantities :
         /\ add_item_to_cart(db, c, ft, fid, q).status_code = 404
         /\ add_item_to_cart(db, c, ft, fid, q).db = db
    /\ \A i \in ItemIds :
         /\ remove_cart_item(db, c, i).status_code = 404
         /\ \A q \in Quantities : update_cart_item(db, c, i, q).status_code = 404

\* the cart exists without Line Items, reports totals of 0 and accepts an add
\* of every sofa of the catalog
CartEmpty(db, c) ==
    /\ read_cart(db, c).status_code = 200
    /\ get_cart_items(db, c).status_code = 200
    /\ get_cart_items(db, c).body.items = <<>>
    /\ get_cart_items(db, c).body.total_items = 0
    /\ get_cart_items(db, c).body.total_price = 0
    /\ get_cart_total(db, c).body.total_price = 0
    /\ get_cart_total(db, c).body.total_quantity = 0
    /\ \A fid \in DOMAIN db.furniture["IkeaSofa"], q \in Quantities :
         add_item_to_cart(db, c, "sofa", fid, q).status_code = 200

\* C21: a deleted cart is gone for good: after a successful delete_cart of c
\* every operation on c answers Not-Found, in that state and in every later
\* one until the store gives the id c to a newly created cart; a cart whose
\* last Line Item is removed still exists, reports totals of 0 and accepts
\* add_item.
C21_CartLifecycle ==
    /\ [](\A c \in CartIds :
           /\ \A r \in {delete_cart(database, c)} :
                r.status_code = 200 => CartGone(r.db, c)
           /\ c \notin DOMAIN shoppingcart => CartGone(database, c)
           /\ \A i \in ItemsOf(database, c) :
                ItemsOf(database, c) = {i} =>
                    /\ remove_cart_item(database, c, i).status_code = 200
                    /\ CartEmpty(remove_cart_item(database, c, i).db, c))
    /\ [][\A c \in CartIds :
            c \notin DOMAIN shoppingcart /\ c \in DOMAIN shoppingcart' =>
                \E cart \in CartBodies :
                    /\ create_cart(database, cart).body.id = c
                    /\ database' = create_cart(database, cart).db
       ]_vars

\* cart 1 was deleted and cart 2 is down to its last Line Item: cart 1 is
\* gone, and cart 2 is there and empty once the item is removed
C21_Witness ==
    /\ DOMAIN shoppingcart = {2}
    /\ furniture["IkeaSofa"] # EmptyTable
    /\ CartGone(database, 1)
    /\ \E i \in DOMAIN cartitem :
         /\ ItemsOf(database, 2) = {i}
         /\ CartEmpty(remove_cart_item(database, 2, i).db, 2)

\* C22: with every request one atomic unit of work, in every state reached by
\* create_cart, add_item, update_cart_item, remove_cart_item, update_cart and
\* delete_cart the cart_id of every Line Item is the id of an existing cart.
C22_ItemsHaveCart ==
    \A i \in DOMAIN cartitem : cartitem[i].cart_id \in DOMAIN shoppingcart

\* the first cart was deleted with its Line Items; the second cart, its
\* customer updated, holds the Line Items that are left
C22_Witness ==
    /\ DOMAIN shoppingcart = {2}
    /\ shoppingcart[2].customer_name = "Jane Roe"
    /\ cartitem # EmptyTable
    /\ delete_cart(database, 2).db.cartitem = EmptyTable

\* C24: a catalog update keeps the identity of the record: for every payload,
\* also one that carries another id than the path, the record is afterwards
\* stored under the id of the path, a get of that id returns it and the table
\* holds the same ids as before.
C24_UpdateKeepsId ==
    \A cls \in FurnitureClasses, id \in CatalogIds, data \in CatalogUpdateBodies :
        Found(furniture[cls], id) =>
            LET r == update_furniture(database, cls, id, data)
                got == read_furniture(r.db, cls, id)
            IN  /\ DOMAIN r.db.furniture[cls] = DOMAIN furniture[cls]
                /\ got.status_code = 200
                /\ got.body.id = id
                /\ r.status_code = 200 => got.body = r.body

\* C23: when add_item_to_cart and delete_cart on the same cart run at once,
\* statement by statement, then once both are over no Line Item carries the
\* id of that cart while the cart is gone.
C23_NoOrphanAfterRace ==
    Final =>
        \A i \in DOMAIN cartitem :
            cartitem[i].cart_id = deleting.cart_id =>
                deleting.cart_id \in DOMAIN shoppingcart

====
